---- MODULE Spec2Model ----
(***************************************************************************)
(* Gradient Lab: the colour utilities (backend/color_utils.py) and the     *)
(* gradient rasterizer (backend/server.py, create_gradient_image).         *)
(*                                                                         *)
(* Strings are sequences of one-character strings.  Python's float         *)
(* arithmetic is modelled by exact rational arithmetic (a rational is a    *)
(* pair <<numerator, denominator>> in lowest terms, denominator > 0).      *)
(* Where the exact value of an expression handed to int() is an integer,   *)
(* the float the code computes can lie just below it, and the code's       *)
(* result is then one less than the model's: an interior palette channel   *)
(* (255/3 is 85 here, 84 there) or an interior pixel's palette index.      *)
(* Nothing stated below depends on such a value.                           *)
(***************************************************************************)
EXTENDS Integers, Sequences, FiniteSets, TLC

VARIABLES
    \* hex_to_rgb / rgb_to_hex exercised as a conversion chain
    convKind,      \* "hex" | "rgb" | "failed": what the current value is
    convHex,       \* the current hex string
    convRgb,       \* the current RGB triple
    convCount,     \* conversions applied so far
    origKind,      \* what the chain started from
    origHex,       \* the hex string the chain started from
    origRgb,       \* the RGB triple the chain started from
    \* interpolate_hue exercised on its own
    hueH1,         \* argument h1
    hueH2,         \* argument h2
    hueT,          \* argument t
    huePc,         \* "call" | "returned"
    hueResult,     \* the value returned
    \* build_palette
    stops,         \* argument stops: records [color, position]
    steps,         \* argument steps
    space,         \* argument space
    bpPc,          \* "idle" | "check" | "prepare" | "loop" | "done" | "failed"
    bpError,       \* the exception raised, "" when none
    rgb_stops,     \* local rgb_stops: pairs <<rgb, position>>
    bpI,           \* loop variable i
    color,         \* local color, <<>> while unassigned
    palette,       \* local palette, the value returned
    bpBranch,      \* the branch of lines 217-237 the last iteration took: "before"
                   \* | "after" | "between" | "none" (no pair found), "" at first
    bpJ,           \* local j, -1 while unassigned
    bpT,           \* local t, <<>> while unassigned
    \* create_gradient_image
    gradient_type, \* argument gradient_type
    angle,         \* argument angle, in degrees
    width,         \* argument width
    height,        \* argument height
    imgPc,         \* "idle" | "start" | "build_palette" | "pixels" | "return"
                   \* | "returned" | "failed"
    imgError,      \* the exception raised, "" when none
    image,         \* the image: <<>> before Image.new, then width * height pixels
    pixels,        \* local pixels
    imgX,          \* loop variable x
    imgY,          \* loop variable y
    colorIndexes   \* the value of local color_index for each pixel appended

convVars == <<convKind, convHex, convRgb, convCount, origKind, origHex, origRgb>>

hueVars == <<hueH1, hueH2, hueT, huePc, hueResult>>

bpVars == <<stops, steps, space, bpPc, bpError, rgb_stops, bpI, color, palette,
            bpBranch, bpJ, bpT>>

imgVars == <<gradient_type, angle, width, height, imgPc, imgError, image, pixels,
             imgX, imgY, colorIndexes>>

vars == <<convVars, hueVars, bpVars, imgVars>>

----------------------------------------------------------------------------
(* Bounds *)

\* longest hex string handed to hex_to_rgb
MaxHexLen == 7

\* interpolate_hue is called with t = k / HueTSteps, k in 0..HueTSteps
HueTSteps == 4

\* most stops handed to build_palette
MaxStops == 4

\* largest step count handed to build_palette
MaxSteps == 5

\* largest image rasterized
MaxWidth == 4

MaxHeight == 2

\* the bounds the request layer puts on its fields (server.py:41, 46, 63)
PositionLimit == 100

StepsFloor == 2

StepsLimit == 1024

DimensionFloor == 32

DimensionLimit == 8192

----------------------------------------------------------------------------
(* Exact rational arithmetic, standing for Python's float arithmetic *)

Abs(x) == IF x < 0 THEN 0 - x ELSE x

RECURSIVE GCD(_, _)
GCD(a, b) == IF b = 0 THEN a ELSE GCD(b, a % b)

\* n/d in lowest terms with a positive denominator
Rat(n, d) ==
    LET g == GCD(Abs(n), Abs(d))
        sg == IF d < 0 THEN 0 - 1 ELSE 1
    IN  <<sg * (n \div g), sg * (d \div g)>>

RInt(k) == <<k, 1>>

RAdd(x, y) ==
    LET g == GCD(x[2], y[2])
    IN  Rat(x[1] * (y[2] \div g) + y[1] * (x[2] \div g), (x[2] \div g) * y[2])

RNeg(x) == <<0 - x[1], x[2]>>

RSub(x, y) == RAdd(x, RNeg(y))

RMul(x, y) ==
    LET g1 == GCD(Abs(x[1]), y[2])
        g2 == GCD(Abs(y[1]), x[2])
    IN  IF x[1] = 0 \/ y[1] = 0 THEN <<0, 1>>
        ELSE <<(x[1] \div g1) * (y[1] \div g2), (x[2] \div g2) * (y[2] \div g1)>>

\* x / y for y # 0
RDiv(x, y) == RMul(x, Rat(y[2], y[1]))

RLt(x, y) == x[1] * y[2] < y[1] * x[2]

RLe(x, y) == x[1] * y[2] <= y[1] * x[2]

RAbs(x) == <<Abs(x[1]), x[2]>>

RMin(x, y) == IF RLe(x, y) THEN x ELSE y

RMax(x, y) == IF RLe(x, y) THEN y ELSE x

\* Python's x % m for a positive integer m: the result is in [0, m)
RMod(x, m) == Rat(x[1] % (m * x[2]), x[2])

\* Python's int(x): truncation toward zero
RTrunc(x) == IF x[1] >= 0 THEN x[1] \div x[2] ELSE 0 - ((0 - x[1]) \div x[2])

----------------------------------------------------------------------------
(* Characters *)

LowerDigits == <<"0","1","2","3","4","5","6","7","8","9","a","b","c","d","e","f">>

UpperDigits == <<"0","1","2","3","4","5","6","7","8","9","A","B","C","D","E","F">>

\* the value of each hex digit, of either case
HexDigitValues ==
    [c \in {LowerDigits[v] : v \in 1..16} \cup {UpperDigits[v] : v \in 1..16} |->
        (CHOOSE v \in 1..16 : LowerDigits[v] = c \/ UpperDigits[v] = c) - 1]

IsHexDigit(c) == c \in DOMAIN HexDigitValues

DigitValue(c) == HexDigitValues[c]

\* the characters the modelled inputs are drawn from: '#', hex digits of
\* both cases, and a character that is no hex digit (a sign, which int()
\* accepts in front of the digits and nowhere else)
HexAlphabet == {"#", "0", "a", "F", "+"}

\* the channel values the modelled RGB triples are drawn from
ChannelValues == {0, 9, 10, 128, 255}

----------------------------------------------------------------------------
(* hex_to_rgb, color_utils.py:11-21 *)

\* str.lstrip('#'): every leading '#' is removed
RECURSIVE lstrip(_)
lstrip(s) == IF s # <<>> /\ Head(s) = "#" THEN lstrip(Tail(s)) ELSE s

\* Python slice s[i:i+2] (0-based i), clipped to the string's length
Slice2(s, i) == SubSeq(s, i + 1, IF i + 2 <= Len(s) THEN i + 2 ELSE Len(s))

\* the value of a string of hex digits
RECURSIVE DigitsValue(_)
DigitsValue(s) ==
    IF s = <<>> THEN 0
    ELSE 16 * DigitsValue(SubSeq(s, 1, Len(s) - 1)) + DigitValue(s[Len(s)])

\* int(s, 16) on the modelled alphabet: an optional sign, then at least one
\* digit and only digits; anything else raises ValueError
int16(s) ==
    LET signed == s # <<>> /\ s[1] \in {"+", "-"}
        digits == IF signed THEN Tail(s) ELSE s
        ok     == digits # <<>> /\ \A k \in 1..Len(digits) : IsHexDigit(digits[k])
    IN  [ok  |-> ok,
         val |-> IF ~ok THEN 0
                 ELSE IF signed /\ s[1] = "-" THEN 0 - DigitsValue(digits)
                 ELSE DigitsValue(digits)]

hex_to_rgb(hex_color) ==
    LET h     == lstrip(hex_color)
        parts == <<int16(Slice2(h, 0)), int16(Slice2(h, 2)), int16(Slice2(h, 4))>>
    IN  IF \A k \in 1..3 : parts[k].ok
        THEN [ok |-> TRUE,  rgb |-> <<parts[1].val, parts[2].val, parts[3].val>>]
        ELSE [ok |-> FALSE, rgb |-> <<0, 0, 0>>]

----------------------------------------------------------------------------
(* rgb_to_hex, color_utils.py:24-33 *)

\* the hex digits of v > 0, most significant first, lowercase
RECURSIVE HexOf(_)
HexOf(v) == IF v = 0 THEN <<>> ELSE Append(HexOf(v \div 16), LowerDigits[(v % 16) + 1])

\* format spec x in place of 02x: no zero padding
Format02xUnpadded(v) ==
    LET mag == IF v < 0 THEN 0 - v ELSE v
    IN  (IF v < 0 THEN <<"-">> ELSE <<>>) \o (IF mag = 0 THEN <<"0">> ELSE HexOf(mag))

\* format spec 02x: lowercase hex, sign first, zero-padded to width 2
Format02x(v) ==
    LET mag    == IF v < 0 THEN 0 - v ELSE v
        digits == IF mag = 0 THEN <<"0">> ELSE HexOf(mag)
        sign   == IF v < 0 THEN <<"-">> ELSE <<>>
        pad    == IF Len(sign) + Len(digits) < 2 THEN <<"0">> ELSE <<>>
    IN  sign \o pad \o digits

rgb_to_hex(r, g, b) == <<"#">> \o Format02x(r) \o Format02x(g) \o Format02x(b)

----------------------------------------------------------------------------
(* The conversion chain: a value is converted back and forth *)

HexStrings == UNION {[1..n -> HexAlphabet] : n \in 0..MaxHexLen}

RgbTriples == [1..3 -> ChannelValues]

ConvInit ==
    /\ gradient_type = "linear" /\ angle = 0 /\ width = 0 /\ height = 0
    /\ imgPc = "idle" /\ imgError = ""
    /\ image = <<>> /\ pixels = <<>> /\ imgX = 0 /\ imgY = 0
    /\ colorIndexes = <<>>
    /\ stops = <<>> /\ steps = 0 /\ space = "rgb" /\ bpPc = "idle"
    /\ bpError = "" /\ rgb_stops = <<>> /\ bpI = 0 /\ color = <<>>
    /\ palette = <<>>
    /\ bpBranch = "" /\ bpJ = 0 - 1 /\ bpT = <<>>
    /\ huePc = "idle" /\ hueResult = <<0, 1>>
    /\ hueH1 = <<0, 1>> /\ hueH2 = <<0, 1>> /\ hueT = <<0, 1>>
    /\ convCount = 0
    /\ \/ /\ origKind = "hex"
          /\ origHex \in HexStrings
          /\ origRgb = <<0, 0, 0>>
       \/ /\ origKind = "rgb"
          /\ origRgb \in RgbTriples
          /\ origHex = <<>>
    /\ convKind = origKind
    /\ convHex = origHex
    /\ convRgb = origRgb

\* a call hex_to_rgb(convHex)
CallHexToRgb ==
    /\ convKind = "hex"
    /\ convCount < 2
    /\ LET res == hex_to_rgb(convHex)
       IN  /\ convKind' = IF res.ok THEN "rgb" ELSE "failed"
           /\ convRgb' = res.rgb
    /\ convCount' = convCount + 1
    /\ UNCHANGED <<convHex, origKind, origHex, origRgb>>
    /\ UNCHANGED <<hueVars, bpVars, imgVars>>

\* a call rgb_to_hex(*convRgb)
CallRgbToHex ==
    /\ convKind = "rgb"
    /\ convCount < 2
    /\ convHex' = rgb_to_hex(convRgb[1], convRgb[2], convRgb[3])
    /\ convKind' = "hex"
    /\ convCount' = convCount + 1
    /\ UNCHANGED <<convRgb, origKind, origHex, origRgb>>
    /\ UNCHANGED <<hueVars, bpVars, imgVars>>

ConvNext == CallHexToRgb \/ CallRgbToHex

----------------------------------------------------------------------------
(* Claims about hex_to_rgb and rgb_to_hex *)

\* exactly 6 hex digits with at most one leading '#'
WellFormedHex(s) ==
    LET h == IF s # <<>> /\ s[1] = "#" THEN Tail(s) ELSE s
    IN  Len(h) = 6 /\ \A k \in 1..6 : IsHexDigit(h[k])

\* '#' followed by the 6 digits of a well-formed s in lowercase
NormalizeHex(s) ==
    LET h == IF s # <<>> /\ s[1] = "#" THEN Tail(s) ELSE s
    IN  <<"#">> \o [k \in 1..Len(h) |-> LowerDigits[DigitValue(h[k]) + 1]]

\* C4: hex_to_rgb returns a triple only for inputs that are exactly 6 hex
\* digits with at most one leading '#'; every other input (a character that
\* is no hex digit, another length, several leading '#') fails.
C4_OnlyWellFormedParses ==
    (origKind = "hex" /\ convCount = 1 /\ ~WellFormedHex(origHex))
        => convKind = "failed"

\* C7: for a valid hex string s, rgb_to_hex(hex_to_rgb(s)) is '#' and the 6
\* digits of s in lowercase, two digits per channel; for an RGB triple c
\* with channels in 0..255, hex_to_rgb(rgb_to_hex(c)) is c.
C7_RoundTrip ==
    /\ (origKind = "hex" /\ WellFormedHex(origHex) /\ convCount >= 1)
          => convKind # "failed"
    /\ (origKind = "hex" /\ WellFormedHex(origHex) /\ convCount = 2)
          => (convKind = "hex" /\ convHex = NormalizeHex(origHex))
    /\ (origKind = "rgb" /\ convCount >= 1) => convKind # "failed"
    /\ (origKind = "rgb" /\ convCount = 2)
          => (convKind = "rgb" /\ convRgb = origRgb)

\* a valid string without '#', with an uppercase digit and a channel below
\* 16, has gone through both conversions and come back changed
C7_Witness ==
    /\ origKind = "hex" /\ convCount = 2 /\ convKind = "hex"
    /\ WellFormedHex(origHex) /\ origHex[1] = "0" /\ origHex[2] = "F"
    /\ convHex # origHex

----------------------------------------------------------------------------
(* interpolate_hue, color_utils.py:96-120 *)

\* lines 107-116: both hues normalized, then one endpoint moved up by 360
\* when they are more than 180 apart
HueEndpoints(h1, h2) ==
    LET a    == RMod(h1, 360)
        b    == RMod(h2, 360)
        diff == RSub(b, a)
        far  == RLt(RInt(180), RAbs(diff))
    IN  IF far /\ RLt(RInt(0), diff) THEN <<RAdd(a, RInt(360)), b>>
        ELSE IF far THEN <<a, RAdd(b, RInt(360))>>
        ELSE <<a, b>>

\* the result returned without the final % 360
interpolate_hue_unnormalized(h1, h2, t) ==
    LET e == HueEndpoints(h1, h2)
    IN  RAdd(e[1], RMul(RSub(e[2], e[1]), t))

\* the blend taken without the shortest-arc adjustment
interpolate_hue_long_way(h1, h2, t) ==
    LET a == RMod(h1, 360)
        b == RMod(h2, 360)
    IN  RMod(RAdd(a, RMul(RSub(b, a), t)), 360)

interpolate_hue(h1, h2, t) ==
    LET e == HueEndpoints(h1, h2)
    IN  RMod(RAdd(e[1], RMul(RSub(e[2], e[1]), t)), 360)

\* the hues the calls are made with: inside and outside [0, 360), one of
\* them no integer, pairs more and less than 180 apart and exactly 180 apart
HueValues ==
    {RInt(k) : k \in {0 - 370, 0 - 30, 0, 10, 90, 180, 190, 270, 350, 360, 725}}
        \cup {<<721, 2>>}

HueInit ==
    /\ gradient_type = "linear" /\ angle = 0 /\ width = 0 /\ height = 0
    /\ imgPc = "idle" /\ imgError = ""
    /\ image = <<>> /\ pixels = <<>> /\ imgX = 0 /\ imgY = 0
    /\ colorIndexes = <<>>
    /\ stops = <<>> /\ steps = 0 /\ space = "rgb" /\ bpPc = "idle"
    /\ bpError = "" /\ rgb_stops = <<>> /\ bpI = 0 /\ color = <<>>
    /\ palette = <<>>
    /\ bpBranch = "" /\ bpJ = 0 - 1 /\ bpT = <<>>
    /\ convKind = "idle" /\ origKind = "idle" /\ convCount = 0
    /\ convHex = <<>> /\ origHex = <<>>
    /\ convRgb = <<0, 0, 0>> /\ origRgb = <<0, 0, 0>>
    /\ hueH1 \in HueValues
    /\ hueH2 \in HueValues
    /\ hueT \in {Rat(k, HueTSteps) : k \in 0..HueTSteps}
    /\ huePc = "call"
    /\ hueResult = <<0, 1>>

\* a call interpolate_hue(hueH1, hueH2, hueT)
CallInterpolateHue ==
    /\ huePc = "call"
    /\ hueResult' = interpolate_hue(hueH1, hueH2, hueT)
    /\ huePc' = "returned"
    /\ UNCHANGED <<hueH1, hueH2, hueT>>
    /\ UNCHANGED <<convVars, bpVars, imgVars>>

HueNext == CallInterpolateHue

----------------------------------------------------------------------------
(* Claims about interpolate_hue *)

\* the distance between two hues around the colour wheel
AngularDistance(x, y) ==
    LET d == RMod(RSub(x, y), 360)
    IN  RMin(d, RSub(RInt(360), d))

C9_HueShorterArc ==
    huePc = "returned" =>
        /\ RLe(RInt(0), hueResult) /\ RLt(hueResult, RInt(360))
        /\ LET e == HueEndpoints(hueH1, hueH2)
           IN  RLe(RAbs(RSub(e[2], e[1])), RInt(180))
        /\ RAdd(AngularDistance(hueResult, hueH1), AngularDistance(hueResult, hueH2))
               = AngularDistance(hueH1, hueH2)

\* a call strictly inside (0, 1) whose hues are more than 180 apart, so
\* that the blend goes through 0, has returned
C9_Witness ==
    /\ huePc = "returned"
    /\ hueH1 = <<350, 1>> /\ hueH2 = <<10, 1>> /\ hueT = <<1, 2>>
    /\ hueResult = <<0, 1>>

----------------------------------------------------------------------------
(* Colour spaces, color_utils.py:36-93.  A colour-space triple holds three *)
(* rationals.                                                              *)

Max3(a, b, c) == IF a >= b /\ a >= c THEN a ELSE IF b >= c THEN b ELSE c

Min3(a, b, c) == IF a <= b /\ a <= c THEN a ELSE IF b <= c THEN b ELSE c

\* the hue computed by colorsys.rgb_to_hls and colorsys.rgb_to_hsv from
\* channels in [0, 1] (given here times 255) that are not all equal
ColorsysHue(r, g, b) ==
    LET maxc   == Max3(r, g, b)
        minc   == Min3(r, g, b)
        rangec == maxc - minc
        rc     == Rat(maxc - r, rangec)
        gc     == Rat(maxc - g, rangec)
        bc     == Rat(maxc - b, rangec)
        h      == IF r = maxc THEN RSub(bc, gc)
                  ELSE IF g = maxc THEN RAdd(RInt(2), RSub(rc, bc))
                  ELSE RAdd(RInt(4), RSub(gc, rc))
    IN  RMod(RDiv(h, RInt(6)), 1)

\* rgb_to_hsl: colorsys.rgb_to_hls(r/255, g/255, b/255), then h * 360,
\* s * 100, l * 100
rgb_to_hsl(r, g, b) ==
    LET maxc == Max3(r, g, b)
        minc == Min3(r, g, b)
        l    == Rat(maxc + minc, 2 * 255)
        s    == IF RLe(l, <<1, 2>>) THEN Rat(maxc - minc, maxc + minc)
                ELSE Rat(maxc - minc, 2 * 255 - maxc - minc)
    IN  IF minc = maxc THEN <<RInt(0), RInt(0), RMul(l, RInt(100))>>
        ELSE <<RMul(ColorsysHue(r, g, b), RInt(360)), RMul(s, RInt(100)),
               RMul(l, RInt(100))>>

\* colorsys._v
ColorsysV(m1, m2, hue0) ==
    LET hue == RMod(hue0, 1)
    IN  IF RLt(hue, <<1, 6>>)
            THEN RAdd(m1, RMul(RMul(RSub(m2, m1), hue), RInt(6)))
        ELSE IF RLt(hue, <<1, 2>>) THEN m2
        ELSE IF RLt(hue, <<2, 3>>)
            THEN RAdd(m1, RMul(RMul(RSub(m2, m1), RSub(<<2, 3>>, hue)), RInt(6)))
        ELSE m1

\* hsl_to_rgb: colorsys.hls_to_rgb(h/360, l/100, s/100), each channel
\* int(_ * 255)
hsl_to_rgb(h0, s0, l0) ==
    LET h  == RDiv(h0, RInt(360))
        s  == RDiv(s0, RInt(100))
        l  == RDiv(l0, RInt(100))
        m2 == IF RLe(l, <<1, 2>>) THEN RMul(l, RAdd(RInt(1), s))
              ELSE RSub(RAdd(l, s), RMul(l, s))
        m1 == RSub(RMul(RInt(2), l), m2)
        c  == IF s = <<0, 1>> THEN <<l, l, l>>
              ELSE <<ColorsysV(m1, m2, RAdd(h, <<1, 3>>)),
                     ColorsysV(m1, m2, h),
                     ColorsysV(m1, m2, RSub(h, <<1, 3>>))>>
    IN  <<RTrunc(RMul(c[1], RInt(255))), RTrunc(RMul(c[2], RInt(255))),
          RTrunc(RMul(c[3], RInt(255)))>>

\* rgb_to_hsv: colorsys.rgb_to_hsv(r/255, g/255, b/255), then h * 360,
\* s * 100, v * 100
rgb_to_hsv(r, g, b) ==
    LET maxc == Max3(r, g, b)
        minc == Min3(r, g, b)
        v    == Rat(maxc, 255)
    IN  IF minc = maxc THEN <<RInt(0), RInt(0), RMul(v, RInt(100))>>
        ELSE <<RMul(ColorsysHue(r, g, b), RInt(360)),
               RMul(Rat(maxc - minc, maxc), RInt(100)), RMul(v, RInt(100))>>

\* hsv_to_rgb: colorsys.hsv_to_rgb(h/360, s/100, v/100), each channel
\* int(_ * 255)
hsv_to_rgb(h0, s0, v0) ==
    LET h  == RDiv(h0, RInt(360))
        s  == RDiv(s0, RInt(100))
        v  == RDiv(v0, RInt(100))
        h6 == RMul(h, RInt(6))
        i  == RTrunc(h6)
        f  == RSub(h6, RInt(i))
        p  == RMul(v, RSub(RInt(1), s))
        q  == RMul(v, RSub(RInt(1), RMul(s, f)))
        t  == RMul(v, RSub(RInt(1), RMul(s, RSub(RInt(1), f))))
        i6 == i % 6
        c  == IF s = <<0, 1>> THEN <<v, v, v>>
              ELSE IF i6 = 0 THEN <<v, t, p>>
              ELSE IF i6 = 1 THEN <<q, v, p>>
              ELSE IF i6 = 2 THEN <<p, v, t>>
              ELSE IF i6 = 3 THEN <<p, q, v>>
              ELSE IF i6 = 4 THEN <<t, p, v>>
              ELSE <<v, p, q>>
    IN  <<RTrunc(RMul(c[1], RInt(255))), RTrunc(RMul(c[2], RInt(255))),
          RTrunc(RMul(c[3], RInt(255)))>>

----------------------------------------------------------------------------
(* Interpolation, color_utils.py:123-180 *)

\* a + (b - a) * t
Lerp(a, b, t) == RAdd(a, RMul(RSub(b, a), t))

interpolate_rgb(color1, color2, t) ==
    <<RTrunc(Lerp(RInt(color1[1]), RInt(color2[1]), t)),
      RTrunc(Lerp(RInt(color1[2]), RInt(color2[2]), t)),
      RTrunc(Lerp(RInt(color1[3]), RInt(color2[3]), t))>>

interpolate_hsl(color1, color2, t) ==
    LET a == rgb_to_hsl(color1[1], color1[2], color1[3])
        b == rgb_to_hsl(color2[1], color2[2], color2[3])
    IN  hsl_to_rgb(interpolate_hue(a[1], b[1], t), Lerp(a[2], b[2], t),
                   Lerp(a[3], b[3], t))

interpolate_hsv(color1, color2, t) ==
    LET a == rgb_to_hsv(color1[1], color1[2], color1[3])
        b == rgb_to_hsv(color2[1], color2[2], color2[3])
    IN  hsv_to_rgb(interpolate_hue(a[1], b[1], t), Lerp(a[2], b[2], t),
                   Lerp(a[3], b[3], t))

\* lines 204-208 with .get(space) given no default: nothing to call for an
\* unrecognized tag
interpolate_func_no_default(tag, color1, color2, t) ==
    IF tag = "hsl" THEN interpolate_hsl(color1, color2, t)
    ELSE IF tag = "hsv" THEN interpolate_hsv(color1, color2, t)
    ELSE IF tag = "rgb" THEN interpolate_rgb(color1, color2, t)
    ELSE <<>>

\* lines 204-208: the function the space tag selects, applied
interpolate_func(tag, color1, color2, t) ==
    IF tag = "hsl" THEN interpolate_hsl(color1, color2, t)
    ELSE IF tag = "hsv" THEN interpolate_hsv(color1, color2, t)
    ELSE interpolate_rgb(color1, color2, t)

----------------------------------------------------------------------------
(* build_palette, color_utils.py:183-241 *)

\* the stops the modelled calls are made of: colours in both cases, with and
\* without '#', two stops at one position, one position above 100
StopPool ==
    { [color |-> <<"#","F","F","0","0","0","0">>, position |-> 0],
      [color |-> <<"0","0","0","0","f","f">>,     position |-> 50],
      [color |-> <<"#","f","f","8","0","0","0">>, position |-> 50],
      [color |-> <<"#","F","F","F","F","F","F">>, position |-> 100],
      [color |-> <<"#","0","0","0","0","0","0">>, position |-> 150] }

\* the lists of stops the modelled calls are made with: up to MaxStops
\* different stops of the pool, in every order
StopLists ==
    UNION {{st \in [1..n -> StopPool] :
               \A a, b \in 1..n : a # b => st[a] # st[b]} : n \in 0..MaxStops}

\* the space tags of the modelled calls, one of them unrecognized
SpaceTags == {"rgb", "hsl", "hsv", "lab"}

\* lines 231-234 with the division of line 234 left out
SegmentTNoDivision(pos1, pos2, position) ==
    IF pos2 = pos1 THEN RInt(0)
    ELSE RSub(position, RInt(pos1))

\* lines 231-234
SegmentT(pos1, pos2, position) ==
    IF pos2 = pos1 THEN RInt(0)
    ELSE RDiv(RSub(position, RInt(pos1)), RInt(pos2 - pos1))

\* the check of line 194 made against 1 in place of 2
InsufficientStopsOffByOne(st) == Len(st) < 1

\* line 194
InsufficientStops(st) == Len(st) < 2

\* s with x put behind the last element whose position is <= x's
RECURSIVE InsertByPosition(_, _)
InsertByPosition(s, x) ==
    IF s = <<>> THEN <<x>>
    ELSE IF s[Len(s)].position <= x.position THEN Append(s, x)
    ELSE Append(InsertByPosition(SubSeq(s, 1, Len(s) - 1), x), s[Len(s)])

\* line 198 without the sort
sorted_unsorted(st) == st

\* line 198: sorted(stops, key=position), a stable sort
RECURSIVE sorted(_)
sorted(st) ==
    IF st = <<>> THEN <<>>
    ELSE InsertByPosition(sorted(SubSeq(st, 1, Len(st) - 1)), st[Len(st)])

\* line 213: (i / (steps - 1)) * 100 if steps > 1 else 0
EvalPosition(i, n) == IF n > 1 THEN Rat(100 * i, n - 1) ELSE RInt(0)

\* lines 225-226: the indexes j (from 1) of the pairs (j, j+1) around position
Brackets(rs, position) ==
    {j \in 1..(Len(rs) - 1) :
        RLe(RInt(rs[j][2]), position) /\ RLe(position, RInt(rs[j + 1][2]))}

\* the scan of line 225 stopping at the last pair around position
LastBracket(rs, position) ==
    CHOOSE j \in Brackets(rs, position) : \A k \in Brackets(rs, position) : j >= k

\* the pair the scan of line 225 stops at: the first one around position
FirstBracket(rs, position) ==
    CHOOSE j \in Brackets(rs, position) : \A k \in Brackets(rs, position) : j <= k

\* lines 217-226: the branch taken for position
ScanBranch(rs, position) ==
    IF RLe(position, RInt(rs[1][2])) THEN "before"
    ELSE IF RLe(RInt(rs[Len(rs)][2]), position) THEN "after"
    ELSE IF Brackets(rs, position) = {} THEN "none"
    ELSE "between"

\* lines 216-237: the value of color after the body of iteration i, where
\* col is its value before
NextColor(rs, n, sp, i, col) ==
    LET position == EvalPosition(i, n)
    IN  IF RLe(position, RInt(rs[1][2])) THEN rs[1][1]
        ELSE IF RLe(RInt(rs[Len(rs)][2]), position) THEN rs[Len(rs)][1]
        ELSE IF Brackets(rs, position) = {} THEN col
        ELSE LET j == FirstBracket(rs, position)
             IN  interpolate_func(sp, rs[j][1], rs[j + 1][1],
                     SegmentT(rs[j][2], rs[j + 1][2], position))

\* line 201: each stop's colour parsed, paired with its position
RECURSIVE ParseStops(_)
ParseStops(st) ==
    IF st = <<>> THEN <<>>
    ELSE Append(ParseStops(SubSeq(st, 1, Len(st) - 1)),
                [parsed   |-> hex_to_rgb(st[Len(st)].color),
                 position |-> st[Len(st)].position])

RECURSIVE RgbStops(_)
RgbStops(ps) ==
    IF ps = <<>> THEN <<>>
    ELSE Append(RgbStops(SubSeq(ps, 1, Len(ps) - 1)),
                <<ps[Len(ps)].parsed.rgb, ps[Len(ps)].position>>)

BpInit ==
    /\ gradient_type = "linear" /\ angle = 0 /\ width = 0 /\ height = 0
    /\ imgPc = "idle" /\ imgError = ""
    /\ image = <<>> /\ pixels = <<>> /\ imgX = 0 /\ imgY = 0
    /\ colorIndexes = <<>>
    /\ convKind = "idle" /\ origKind = "idle" /\ convCount = 0
    /\ convHex = <<>> /\ origHex = <<>>
    /\ convRgb = <<0, 0, 0>> /\ origRgb = <<0, 0, 0>>
    /\ huePc = "idle" /\ hueResult = <<0, 1>>
    /\ hueH1 = <<0, 1>> /\ hueH2 = <<0, 1>> /\ hueT = <<0, 1>>
    /\ stops \in StopLists
    /\ steps \in 0..MaxSteps
    /\ space \in SpaceTags
    /\ bpPc = "check"
    /\ bpError = "" /\ rgb_stops = <<>> /\ bpI = 0 /\ color = <<>>
    /\ palette = <<>>
    /\ bpBranch = "" /\ bpJ = 0 - 1 /\ bpT = <<>>

\* lines 194-195
BpCheck ==
    /\ bpPc = "check"
    /\ IF InsufficientStops(stops)
       THEN bpPc' = "failed" /\ bpError' = "At least 2 color stops are required"
       ELSE bpPc' = "prepare" /\ bpError' = ""
    /\ UNCHANGED <<stops, steps, space, rgb_stops, bpI, color, palette>>
    /\ UNCHANGED <<bpBranch, bpJ, bpT>>
    /\ UNCHANGED <<convVars, hueVars, imgVars>>

\* lines 198-210: the stops sorted, their colours parsed, the palette empty
BpPrepare ==
    /\ bpPc = "prepare"
    /\ LET sorted_stops == sorted(stops)
           parsed == ParseStops(sorted_stops)
       IN  IF \A k \in 1..Len(parsed) : parsed[k].parsed.ok
           THEN /\ rgb_stops' = RgbStops(parsed)
                /\ bpPc' = "loop"
                /\ bpError' = ""
           ELSE /\ rgb_stops' = <<>>
                /\ bpPc' = "failed"
                /\ bpError' = "invalid literal for int() with base 16"
    /\ bpI' = 0
    /\ palette' = <<>>
    /\ UNCHANGED <<stops, steps, space, color, bpBranch, bpJ, bpT>>
    /\ UNCHANGED <<convVars, hueVars, imgVars>>

\* lines 212-239: one iteration of the loop over range(steps)
BpIterate ==
    /\ bpPc = "loop"
    /\ bpI < steps
    /\ LET c == NextColor(rgb_stops, steps, space, bpI, color)
       IN  IF c = <<>>
           THEN /\ bpPc' = "failed"
                /\ bpError' = "local variable 'color' referenced before assignment"
                /\ UNCHANGED <<color, palette, bpI>>
           ELSE /\ color' = c
                /\ palette' = Append(palette, rgb_to_hex(c[1], c[2], c[3]))
                /\ bpI' = bpI + 1
                /\ UNCHANGED <<bpPc, bpError>>
    /\ LET position == EvalPosition(bpI, steps)
           branch == ScanBranch(rgb_stops, position)
       IN  /\ bpBranch' = branch
           /\ bpJ' = IF branch = "between" THEN FirstBracket(rgb_stops, position) - 1
                     ELSE IF branch = "none" THEN Len(rgb_stops) - 2
                     ELSE bpJ
           /\ bpT' = IF branch = "between"
                     THEN LET j == FirstBracket(rgb_stops, position)
                          IN  SegmentT(rgb_stops[j][2], rgb_stops[j + 1][2], position)
                     ELSE bpT
    /\ UNCHANGED <<stops, steps, space, rgb_stops>>
    /\ UNCHANGED <<convVars, hueVars, imgVars>>

\* line 241, once range(steps) is exhausted
BpReturn ==
    /\ bpPc = "loop"
    /\ bpI >= steps
    /\ bpPc' = "done"
    /\ UNCHANGED <<stops, steps, space, bpError, rgb_stops, bpI, color, palette>>
    /\ UNCHANGED <<bpBranch, bpJ, bpT>>
    /\ UNCHANGED <<convVars, hueVars, imgVars>>

BpNext == BpCheck \/ BpPrepare \/ BpIterate \/ BpReturn

----------------------------------------------------------------------------
(* Claims about build_palette *)

PositionsOf(st) == {st[k].position : k \in 1..Len(st)}

LowestPosition(st) == CHOOSE q \in PositionsOf(st) : \A r \in PositionsOf(st) : q <= r

HighestPosition(st) == CHOOSE q \in PositionsOf(st) : \A r \in PositionsOf(st) : q >= r

\* '#' and six lowercase hex digits
IsHexColor(h) ==
    /\ Len(h) = 7
    /\ h[1] = "#"
    /\ \A k \in 2..7 : \E v \in 1..16 : h[k] = LowerDigits[v]

\* C1: with at least 2 stops at positions in [0, 100], in any order, and
\* steps >= 2, the first entry returned is the colour of a stop at the lowest
\* position and the last entry the colour of a stop at the highest position,
\* as lowercase hex.
C1_EndpointsAreStopColors ==
    (/\ bpPc = "done"
     /\ Len(stops) >= 2
     /\ steps >= 2
     /\ \A k \in 1..Len(stops) : stops[k].position >= 0 /\ stops[k].position <= 100)
    => /\ Len(palette) = steps
       /\ \E k \in 1..Len(stops) :
            /\ stops[k].position = LowestPosition(stops)
            /\ palette[1] = NormalizeHex(stops[k].color)
       /\ \E k \in 1..Len(stops) :
            /\ stops[k].position = HighestPosition(stops)
            /\ palette[steps] = NormalizeHex(stops[k].color)

\* a call has returned whose stops were given in descending order, none at
\* position 0, two of them at the lowest position
C1_Witness ==
    /\ bpPc = "done" /\ steps >= 3 /\ Len(stops) = 3
    /\ stops[1].position = 100 /\ stops[2].position = 50 /\ stops[3].position = 50
    /\ space = "hsl"
    /\ palette[1] # palette[steps]

\* C2: with at least 2 stops, whatever the step count and the space tag (an
\* unrecognized one included), build_palette raises nothing and returns
\* exactly steps hex strings.
C2_ReturnsStepsHexStrings ==
    /\ Len(stops) >= 2 => bpPc # "failed"
    /\ bpPc = "done" =>
          /\ Len(palette) = steps
          /\ \A k \in 1..Len(palette) : IsHexColor(palette[k])

\* a call with an unrecognized space tag has returned MaxSteps entries, an
\* interpolated one among them
C2_Witness ==
    /\ bpPc = "done" /\ space = "lab" /\ steps = MaxSteps /\ Len(palette) = MaxSteps
    /\ palette[2] # palette[1] /\ palette[2] # palette[MaxSteps]

\* C3: with fewer than 2 stops build_palette fails with "At least 2 color
\* stops are required", whatever steps and space are, before a stop colour
\* is parsed and before a palette entry is produced.
C3_InsufficientStopsFailsFirst ==
    Len(stops) < 2 =>
        /\ bpPc \in {"check", "failed"}
        /\ bpPc = "failed" => bpError = "At least 2 color stops are required"
        /\ rgb_stops = <<>>
        /\ palette = <<>>
        /\ color = <<>>

\* a call with one stop and a positive step count has failed
C3_Witness ==
    /\ bpPc = "failed" /\ Len(stops) = 1 /\ steps >= 2
    /\ bpError = "At least 2 color stops are required"

\* the output indexes (from 1) evaluated at position q
IndexesAt(q) == {k \in 1..steps : EvalPosition(k - 1, steps) = RInt(q)}

\* the input indexes of the stops at position q
StopsAt(q) == {a \in 1..Len(stops) : stops[a].position = q}

\* positions shared by two stops, strictly between the lowest and the highest
SharedInnerPositions ==
    {q \in PositionsOf(stops) :
        /\ Cardinality(StopsAt(q)) >= 2
        /\ LowestPosition(stops) < q
        /\ q < HighestPosition(stops)}

\* the stop at q that the stable sort puts first: the first of them in the
\* input
EarliestAt(q) == CHOOSE a \in StopsAt(q) : \A b \in StopsAt(q) : a <= b

\* the stop the stable sort puts right before the stops at q, for q above
\* the lowest position
StopBefore(q) ==
    CHOOSE a \in 1..Len(stops) :
        /\ stops[a].position < q
        /\ \A b \in 1..Len(stops) :
              stops[b].position < q =>
                  \/ stops[b].position < stops[a].position
                  \/ (stops[b].position = stops[a].position /\ b <= a)

\* C6 as stated: where two stops share a position p strictly between the
\* first and the last sorted position and an output index is evaluated at p,
\* the entry is the colour of the later of the two stops in sorted order.
C6_LaterStopWins ==
    bpPc = "done" =>
        \A q \in SharedInnerPositions : \A k \in IndexesAt(q) :
            \A a, b \in StopsAt(q) :
                a < b => palette[k] = NormalizeHex(stops[b].color)

\* C6 as amended: the entry is the blend, at t = 1, from the stop sorted
\* right before the stops at p to the earliest stop at p; in rgb space (and
\* for an unrecognized tag) that is exactly the colour of the earliest stop
\* at p.
C6_EarliestStopWins ==
    bpPc = "done" =>
        \A q \in SharedInnerPositions : \A k \in IndexesAt(q) :
            LET before   == hex_to_rgb(stops[StopBefore(q)].color).rgb
                earliest == hex_to_rgb(stops[EarliestAt(q)].color).rgb
                blend    == interpolate_func(space, before, earliest, RInt(1))
            IN  /\ palette[k] = rgb_to_hex(blend[1], blend[2], blend[3])
                /\ space \notin {"hsl", "hsv"} =>
                      palette[k] = NormalizeHex(stops[EarliestAt(q)].color)

\* a call in rgb space has returned an entry evaluated at position 50, which
\* two stops given in the order orange, blue share, between stops at 0 and
\* at 100
C6_Witness ==
    /\ bpPc = "done" /\ space = "rgb" /\ steps = 3 /\ Len(stops) = 4
    /\ stops[1].position = 100 /\ stops[2].position = 50
    /\ stops[3].position = 50 /\ stops[4].position = 0
    /\ palette[2] = NormalizeHex(stops[2].color)
    /\ palette[2] # NormalizeHex(stops[3].color)

\* the position the last iteration of the loop evaluated
LastPosition == EvalPosition(bpI - 1, steps)

\* an iteration has run for a call with at least 2 stops, all at positions
\* in [0, 100], and its position lies strictly between the lowest and the
\* highest stop position
InnerIteration ==
    /\ bpPc \in {"loop", "done"}
    /\ bpI >= 1
    /\ \A k \in 1..Len(stops) : stops[k].position >= 0 /\ stops[k].position <= 100
    /\ RLt(RInt(LowestPosition(stops)), LastPosition)
    /\ RLt(LastPosition, RInt(HighestPosition(stops)))

\* C12: for an output index whose position lies strictly between the first
\* and the last sorted stop position, the scan finds an adjacent pair
\* (j, j+1) with pos_j <= position <= pos_(j+1); the colour emitted is the
\* interpolation over that pair computed in this iteration, with
\* 0 <= t <= 1; the pair found is never zero-width, so t is the quotient
\* (position - pos_j) / (pos_(j+1) - pos_j) and a zero-width pair is used
\* nowhere outside the t = 0 guard.  No call with 2 or more stops fails
\* for an unassigned colour.
C12_BracketFoundAndTInUnitInterval ==
    /\ bpBranch # "none"
    /\ bpPc = "failed" => Len(stops) < 2
    /\ InnerIteration =>
          /\ bpBranch = "between"
          /\ bpJ >= 0 /\ bpJ + 2 <= Len(rgb_stops)
          /\ LET color1 == rgb_stops[bpJ + 1][1]
                 pos1   == rgb_stops[bpJ + 1][2]
                 color2 == rgb_stops[bpJ + 2][1]
                 pos2   == rgb_stops[bpJ + 2][2]
             IN  /\ RLe(RInt(pos1), LastPosition)
                 /\ RLe(LastPosition, RInt(pos2))
                 /\ pos1 < pos2
                 /\ RMul(bpT, RInt(pos2 - pos1)) = RSub(LastPosition, RInt(pos1))
                 /\ RLe(RInt(0), bpT) /\ RLe(bpT, RInt(1))
                 /\ color = interpolate_func(space, color1, color2, bpT)
                 /\ palette[bpI] = rgb_to_hex(color[1], color[2], color[3])

\* an iteration strictly inside a segment has run, after an earlier pair was
\* passed over, for stops two of which share a position
C12_Witness ==
    /\ InnerIteration
    /\ bpPc = "loop"
    /\ bpJ >= 1
    /\ RLt(RInt(0), bpT) /\ RLt(bpT, RInt(1))
    /\ Cardinality(PositionsOf(stops)) < Len(stops)
    /\ Len(palette) = bpI

----------------------------------------------------------------------------
(* create_gradient_image (server.py) *)

Max2(a, b) == IF a >= b THEN a ELSE b

Min2(a, b) == IF a <= b THEN a ELSE b

\* lines 94-96: cos and sin of an angle in degrees, for multiples of 90.  At
\* 90, 180 and 270 math.cos / math.sin return about 1e-16 where 0 stands here.
CosDeg(a) == IF a % 360 = 0 THEN 1 ELSE IF a % 360 = 180 THEN 0 - 1 ELSE 0

SinDeg(a) == IF a % 360 = 90 THEN 1 ELSE IF a % 360 = 270 THEN 0 - 1 ELSE 0

\* lines 111-116 with nx and ny exchanged in line 115
LinearTAxesSwapped(x, y, w, h, a) ==
    LET nx == Rat(2 * x - w, w)
        ny == Rat(2 * y - h, h)
        t  == RDiv(RAdd(RAdd(RMul(ny, RInt(CosDeg(a))), RMul(nx, RInt(SinDeg(a)))),
                        RInt(1)), RInt(2))
    IN  RMax(RInt(0), RMin(RInt(1), t))

\* lines 111-116: nx = (x - width/2) / (width/2), ny likewise,
\* t = (nx * cos + ny * sin + 1) / 2, clamped to [0, 1]
LinearT(x, y, w, h, a) ==
    LET nx == Rat(2 * x - w, w)
        ny == Rat(2 * y - h, h)
        t  == RDiv(RAdd(RAdd(RMul(nx, RInt(CosDeg(a))), RMul(ny, RInt(SinDeg(a)))),
                        RInt(1)), RInt(2))
    IN  RMax(RInt(0), RMin(RInt(1), t))

\* lines 120, 146: max(0, min(len(palette) - 1, color_index))
ClampIndex(len, ci) == Max2(0, Min2(len - 1, ci))

\* lines 119-120
LinearIndex(x, y, w, h, a, len) ==
    ClampIndex(len, RTrunc(RMul(LinearT(x, y, w, h, a), RInt(len - 1))))

\* lines 129-130: max_radius squared
MaxRadiusSquared(w, h) == (w \div 2) * (w \div 2) + (h \div 2) * (h \div 2)

\* lines 136-138: distance squared
DistanceSquared(x, y, w, h) ==
    (x - w \div 2) * (x - w \div 2) + (y - h \div 2) * (y - h \div 2)

\* lines 141-146 for max_radius > 0: int(min(1, distance / max_radius) * (len - 1)),
\* clamped; for len >= 1 the largest k with k * max_radius <= distance * (len - 1)
RadialIndex(x, y, w, h, len) ==
    LET d2 == DistanceSquared(x, y, w, h)
        m2 == MaxRadiusSquared(w, h)
        ks == {k \in 0..(len - 1) : k * k * m2 <= d2 * (len - 1) * (len - 1)}
    IN  IF len <= 1 THEN ClampIndex(len, 0)
        ELSE ClampIndex(len, CHOOSE k \in ks : \A k2 \in ks : k2 <= k)

\* math.atan2(b, a) / (2 * pi) for integers a >= b >= 0, a > 0: 0 on the axis,
\* 1/8 on the diagonal, and to five decimals for the slopes 1/2, 1/3 and 2/3
\* (0.0737918..., 0.0512081..., 0.0935827...)
OctantTurns(a, b) ==
    IF b = 0 THEN RInt(0)
    ELSE IF a = b THEN Rat(1, 8)
    ELSE IF 2 * b = a THEN Rat(7379, 100000)
    ELSE IF 3 * b = a THEN Rat(5121, 100000)
    ELSE Rat(9358, 100000)

\* math.atan2(ay, ax) / (2 * pi) for ax, ay >= 0, not both 0
QuadrantTurns(ax, ay) ==
    IF ay <= ax THEN OctantTurns(ax, ay)
    ELSE RSub(Rat(1, 4), OctantTurns(ay, ax))

\* line 167: math.atan2(dy, dx) / (2 * pi), in (-1/2, 1/2], for dx, dy not
\* both 0
Atan2Turns(dy, dx) ==
    LET q == QuadrantTurns(Abs(dx), Abs(dy))
    IN  IF dy >= 0
        THEN IF dx >= 0 THEN q ELSE RSub(Rat(1, 2), q)
        ELSE IF dx >= 0 THEN RNeg(q) ELSE RSub(q, Rat(1, 2))

\* lines 161-173: t = ((pixel_angle - start_angle_rad) % (2 * pi)) / (2 * pi)
ConicT(x, y, w, h, a) ==
    LET dx == x - w \div 2
        dy == y - h \div 2
        pixel_turns == IF dx = 0 /\ dy = 0 THEN RInt(0) ELSE Atan2Turns(dy, dx)
    IN  RMod(RSub(pixel_turns, Rat(a, 360)), 1)

\* lines 176-177
ConicIndex(x, y, w, h, a, len) ==
    ClampIndex(len, RTrunc(RMul(ConicT(x, y, w, h, a), RInt(len - 1))))

\* the calls modelled: stops in range with two stops, a single stop, a stop
\* above position 100
RasterStopLists ==
    { << [color |-> <<"#","F","F","0","0","0","0">>, position |-> 0],
         [color |-> <<"#","F","F","F","F","F","F">>, position |-> 100] >>,
      << [color |-> <<"0","0","0","0","f","f">>, position |-> 50] >>,
      << [color |-> <<"#","F","F","0","0","0","0">>, position |-> 0],
         [color |-> <<"#","0","0","0","0","0","0">>, position |-> 150] >> }

RasterSpaces == {"rgb", "hsv"}

\* the gradient types of the modelled calls, one of them unrecognized
GradientTypes == {"linear", "radial", "conic", "diamond"}

AngleValues == {0, 90, 180, 270}

\* Image.new('RGB', (w, h)): w * h black pixels
NewImage(w, h) == [k \in 1..(w * h) |-> <<0, 0, 0>>]

CgiInit ==
    /\ convKind = "idle" /\ origKind = "idle" /\ convCount = 0
    /\ convHex = <<>> /\ origHex = <<>>
    /\ convRgb = <<0, 0, 0>> /\ origRgb = <<0, 0, 0>>
    /\ huePc = "idle" /\ hueResult = <<0, 1>>
    /\ hueH1 = <<0, 1>> /\ hueH2 = <<0, 1>> /\ hueT = <<0, 1>>
    /\ bpPc = "idle"
    /\ bpError = "" /\ rgb_stops = <<>> /\ bpI = 0 /\ color = <<>>
    /\ palette = <<>>
    /\ bpBranch = "" /\ bpJ = 0 - 1 /\ bpT = <<>>
    /\ imgPc = "start" /\ imgError = ""
    /\ image = <<>> /\ pixels = <<>> /\ imgX = 0 /\ imgY = 0
    /\ colorIndexes = <<>>
    /\ stops \in RasterStopLists
    /\ steps \in 0..MaxSteps
    /\ space \in RasterSpaces
    /\ gradient_type \in GradientTypes
    /\ angle \in AngleValues
    /\ width \in 1..MaxWidth
    /\ height \in 1..MaxHeight

\* lines 84-87: build_palette is called with the stops, steps and space
CgiBuildPalette ==
    /\ imgPc = "start"
    /\ imgPc' = "build_palette"
    /\ bpPc' = "check"
    /\ UNCHANGED <<stops, steps, space, bpError, rgb_stops, bpI, color, palette>>
    /\ UNCHANGED <<bpBranch, bpJ, bpT>>
    /\ UNCHANGED <<gradient_type, angle, width, height, imgError, image, pixels,
                   imgX, imgY, colorIndexes>>
    /\ UNCHANGED <<convVars, hueVars>>

\* line 87: an exception of build_palette leaves create_gradient_image
CgiPaletteFailed ==
    /\ imgPc = "build_palette"
    /\ bpPc = "failed"
    /\ imgPc' = "failed"
    /\ imgError' = bpError
    /\ UNCHANGED <<gradient_type, angle, width, height, image, pixels, imgX, imgY,
                   colorIndexes>>
    /\ UNCHANGED <<convVars, hueVars, bpVars>>

\* lines 87-106, 127-132, 152-157: build_palette has returned; the image is created and
\* the branch of the gradient type entered; no branch for an unrecognized type
CgiNewImage ==
    /\ imgPc = "build_palette"
    /\ bpPc = "done"
    /\ image' = NewImage(width, height)
    /\ imgPc' = IF gradient_type \in {"linear", "radial", "conic"}
                 THEN "pixels" ELSE "return"
    /\ pixels' = <<>>
    /\ imgX' = 0
    /\ imgY' = 0
    /\ UNCHANGED <<gradient_type, angle, width, height, imgError, colorIndexes>>
    /\ UNCHANGED <<convVars, hueVars, bpVars>>

\* lines 107-122, 133-148, 158-179: one iteration of the loops over y and x
CgiPixel ==
    /\ imgPc = "pixels"
    /\ imgY < height
    /\ IF gradient_type = "radial" /\ MaxRadiusSquared(width, height) = 0
       THEN /\ imgPc' = "failed"
            /\ imgError' = "float division by zero"
            /\ UNCHANGED <<pixels, colorIndexes, imgX, imgY>>
       ELSE LET len == Len(palette)
                color_index ==
                    IF gradient_type = "linear"
                    THEN LinearIndex(imgX, imgY, width, height, angle, len)
                    ELSE IF gradient_type = "radial"
                    THEN RadialIndex(imgX, imgY, width, height, len)
                    ELSE ConicIndex(imgX, imgY, width, height, angle, len)
            IN  IF color_index >= len
                THEN /\ imgPc' = "failed"
                     /\ imgError' = "list index out of range"
                     /\ UNCHANGED <<pixels, colorIndexes, imgX, imgY>>
                ELSE LET parsed == hex_to_rgb(palette[color_index + 1])
                     IN  IF parsed.ok
                         THEN /\ pixels' = Append(pixels, parsed.rgb)
                              /\ colorIndexes' = Append(colorIndexes, color_index)
                              /\ imgX' = IF imgX + 1 < width THEN imgX + 1 ELSE 0
                              /\ imgY' = IF imgX + 1 < width THEN imgY ELSE imgY + 1
                              /\ UNCHANGED <<imgPc, imgError>>
                         ELSE /\ imgPc' = "failed"
                              /\ imgError' = "invalid literal for int() with base 16"
                              /\ UNCHANGED <<pixels, colorIndexes, imgX, imgY>>
    /\ UNCHANGED <<gradient_type, angle, width, height, image>>
    /\ UNCHANGED <<convVars, hueVars, bpVars>>

\* lines 125, 150, 181: image.putdata(pixels), once the loops are exhausted
CgiPutData ==
    /\ imgPc = "pixels"
    /\ imgY >= height
    /\ image' = [k \in 1..Len(image) |-> IF k <= Len(pixels) THEN pixels[k] ELSE image[k]]
    /\ imgPc' = "return"
    /\ UNCHANGED <<gradient_type, angle, width, height, imgError, pixels, imgX, imgY,
                   colorIndexes>>
    /\ UNCHANGED <<convVars, hueVars, bpVars>>

\* line 183
CgiReturn ==
    /\ imgPc = "return"
    /\ imgPc' = "returned"
    /\ UNCHANGED <<gradient_type, angle, width, height, imgError, image, pixels,
                   imgX, imgY, colorIndexes>>
    /\ UNCHANGED <<convVars, hueVars, bpVars>>

CgiNext ==
    \/ CgiBuildPalette \/ CgiPaletteFailed \/ CgiNewImage \/ CgiPixel
    \/ CgiPutData \/ CgiReturn
    \/ BpNext

----------------------------------------------------------------------------
(* Claims about create_gradient_image *)

\* the column of the k-th pixel appended
ColumnOf(k) == (k - 1) % width

\* a linear gradient at angle 0 is being or has been rasterized from a
\* palette of at least 2 entries
LinearAtZero ==
    /\ imgPc \in {"pixels", "return", "returned"}
    /\ gradient_type = "linear"
    /\ angle = 0
    /\ Len(palette) >= 2

\* C10 as stated: for a linear gradient at angle 0 and a palette of length
\* L >= 2, in every row the palette index is non-decreasing in x, column 0
\* uses index 0 and column W-1 uses index L-1.
C10_RightmostIsLast ==
    LinearAtZero =>
        \A k \in 1..Len(colorIndexes) :
            /\ ColumnOf(k) = 0 => colorIndexes[k] = 0
            /\ ColumnOf(k) > 0 => colorIndexes[k - 1] <= colorIndexes[k]
            /\ ColumnOf(k) = width - 1 => colorIndexes[k] = Len(palette) - 1

\* C10 as amended: in every row the palette index is non-decreasing in x,
\* column 0 uses index 0, and column W-1 uses an index of at most L-2: the
\* last palette entry is never used.
C10_RightmostBelowLast ==
    LinearAtZero =>
        \A k \in 1..Len(colorIndexes) :
            /\ ColumnOf(k) = 0 => colorIndexes[k] = 0
            /\ ColumnOf(k) > 0 => colorIndexes[k - 1] <= colorIndexes[k]
            /\ ColumnOf(k) = width - 1 => colorIndexes[k] <= Len(palette) - 2

\* a linear gradient at angle 0 of two rows and at least three columns has
\* been returned, its indexes rising along the row from 0
C10_Witness ==
    /\ LinearAtZero
    /\ imgPc = "returned"
    /\ height = 2 /\ width >= 3
    /\ Len(colorIndexes) = width * height
    /\ colorIndexes[1] = 0
    /\ colorIndexes[width] >= 2
    /\ colorIndexes[2 * width] = colorIndexes[width]

\* C5: build_palette returns no palette when a stop position is outside
\* [0, 100] or steps is outside [2, 1024], and create_gradient_image returns
\* no image when width or height is outside [32, 8192].
C5_CoreRejectsOutOfRange ==
    /\ bpPc = "done" =>
          /\ \A k \in 1..Len(stops) :
                stops[k].position >= 0 /\ stops[k].position <= PositionLimit
          /\ steps >= StepsFloor /\ steps <= StepsLimit
    /\ imgPc = "returned" =>
          /\ width >= DimensionFloor /\ width <= DimensionLimit
          /\ height >= DimensionFloor /\ height <= DimensionLimit

\* C11: a call of create_gradient_image, whatever its gradient type, either
\* fails with no image created and no pixel produced, or returns width *
\* height pixels, each one the palette colour at an index in
\* 0..len(palette) - 1 chosen for it; it returns no unwritten pixel.
C11_AllOrNothing ==
    /\ imgPc = "failed" => image = <<>> /\ pixels = <<>>
    /\ imgPc = "returned" =>
          /\ Len(image) = width * height
          /\ Len(colorIndexes) = width * height
          /\ \A k \in 1..Len(image) :
                /\ colorIndexes[k] \in 0..(Len(palette) - 1)
                /\ image[k] = hex_to_rgb(palette[colorIndexes[k] + 1]).rgb

----------------------------------------------------------------------------
(* Specifications: one per entry point, and all of them together *)

SpecHex == ConvInit /\ [][ConvNext]_vars

SpecHue == HueInit /\ [][HueNext]_vars

SpecPalette == BpInit /\ [][BpNext]_vars

SpecRaster == CgiInit /\ [][CgiNext]_vars

Init == ConvInit \/ HueInit \/ BpInit \/ CgiInit

Next == ConvNext \/ HueNext \/ CgiNext

Spec == Init /\ [][Next]_vars

====
